---- MODULE Spec2Model ----
(***************************************************************************)
(* Model of prosper/common/prosper_config.py: the layered config loader    *)
(* (get_local_config_filepath, get_configs) and the option resolver        *)
(* (ProsperConfig.__init__, get_option, attach_logger).                    *)
(*                                                                         *)
(* Paths are sequences of one-character strings so that str.replace is     *)
(* computed, not assumed.  Python values are records [t, v] (type tag and  *)
(* payload) so that == and identity differ as they do in Python.           *)
(***************************************************************************)
EXTENDS Integers, Sequences, FiniteSets, TLC

VARIABLES fs, self, call, result, warned, logged

vars == <<fs, self, call, result, warned, logged>>

----------------------------------------------------------------------------
(* Bounds *)

\* number of distinct logger objects a caller may pass
NumLoggers == 1

\* number of distinct int payloads a caller may pass as option/default
NumArgs == 1

----------------------------------------------------------------------------
(* Python values *)

PyNone == [t |-> "NoneType", v |-> 0]

PyInt(n) == [t |-> "int", v |-> n]

PyFloat(n) == [t |-> "float", v |-> n]

PyStr(n) == [t |-> "str", v |-> n]

NumericTypes == {"int", "float"}

\* Python's == on the values above: numbers compare by value across int and
\* float (3 == 3.0), everything else only equals itself.
PyEq(a, b) ==
    IF a.t \in NumericTypes /\ b.t \in NumericTypes
    THEN a.v = b.v
    ELSE a = b

\* PyNe with the runtime value tested against None, not against the default
PyNe_against_None(a, b) == a # PyNone

\* the `!=` of get_option line 89
PyNe(a, b) == ~PyEq(a, b)

\* values a caller passes as args_option / args_default
\* (None, the ints 1..NumArgs, and the float 1.0, which == 1 but is not 1)
ArgValues == {PyNone, PyFloat(1)} \cup {PyInt(n) : n \in 1..NumArgs}

Loggers == 1..NumLoggers

\* logger=DEFAULT_LOGGER, the module-level NULL logger
DEFAULT_LOGGER == 0

----------------------------------------------------------------------------
(* Paths and str.replace *)

CFG == <<".", "c", "f", "g">>

LOCAL_CFG == <<"_", "l", "o", "c", "a", "l", ".", "c", "f", "g">>

RECURSIVE Replace(_, _, _)
\* str.replace(old, new) for non-empty old: every non-overlapping occurrence,
\* scanning left to right
Replace(s, old, new) ==
    IF Len(s) < Len(old) THEN s
    ELSE IF SubSeq(s, 1, Len(old)) = old
         THEN new \o Replace(SubSeq(s, Len(old) + 1, Len(s)), old, new)
         ELSE <<Head(s)>> \o Replace(Tail(s), old, new)

\* "m.cfg"
MasterPath == <<"m">> \o CFG

\* "m_local.cfg"
SiblingPath == <<"m">> \o LOCAL_CFG

\* "o", a path without the '.cfg' token; never on disk
OtherPath == <<"o">>

\* "d.cfg.cfg", a path holding the token twice; never on disk
DoublePath == <<"d">> \o CFG \o CFG

\* paths that may hold something on disk
FsPaths == {MasterPath, SiblingPath}

\* paths a caller may pass
ArgPaths == FsPaths \cup {OtherPath, DoublePath}

\* local_filepath_override=None
NoOverride == [given |-> FALSE, path |-> <<>>]

\* an override the caller passed as a str
Override(p) == [given |-> TRUE, path |-> p]

\* what a caller may pass as local_filepath_override; '' is a str that is falsy
ArgOverrides == {NoOverride, Override(<<>>), Override(MasterPath), Override(OtherPath)}

\* `if local_filepath_override:` - None and '' are falsy
Truthy(local_filepath_override) ==
    local_filepath_override.given /\ local_filepath_override.path # <<>>

----------------------------------------------------------------------------
(* Files and parsed documents *)

NoKeys == [k \in {} |-> PyNone]

NoSections == [s \in {} |-> NoKeys]

\* a ConfigParser after read_file: the [DEFAULT] options and the sections
ConfigParser(defaults, sections) ==
    [kind |-> "ConfigParser", defaults |-> defaults, sections |-> sections]

\* local_config = None (line 159)
NoDocument == [kind |-> "None", defaults |-> NoKeys, sections |-> NoSections]

\* a file with no section at all
EmptyDoc == ConfigParser(NoKeys, NoSections)

\* [api] timeout = 30, and the no-value key `flag`
Doc30 ==
    ConfigParser(NoKeys,
                 [s \in {"api"} |->
                    [k \in {"timeout", "flag"} |->
                        IF k = "timeout" THEN PyStr(30) ELSE PyNone]])

\* [DEFAULT] retries = 7 and [api] timeout = 5
Doc5 ==
    ConfigParser([k \in {"retries"} |-> PyStr(7)],
                 [s \in {"api"} |-> [k \in {"timeout"} |-> PyStr(5)]])

\* the well-formed file contents considered; no value holds a ${...} reference,
\* so ExtendedInterpolation returns every value as stored
Docs == {EmptyDoc, Doc30, Doc5}

\* section and key names a caller may ask for
SectionNames == {"api", "db"}

KeyNames == {"timeout", "Timeout", "retries", "flag"}

\* what a path holds on disk
FileStates ==
    {[kind |-> "missing"], [kind |-> "dir"], [kind |-> "unreadable"],
     [kind |-> "malformed"]}
    \cup {[kind |-> "file", doc |-> d] : d \in Docs}

\* the state of path p; paths outside FsPaths hold nothing
FileAt(p) == IF p \in FsPaths THEN fs[p] ELSE [kind |-> "missing"]

\* os.path.isfile
isfile(p) == FileAt(p).kind \in {"unreadable", "malformed", "file"}

\* the exception raised by open(p, 'r') followed by read_file, or "" for none
LoadError(p) ==
    CASE FileAt(p).kind = "missing"    -> "FileNotFoundError"
      [] FileAt(p).kind = "dir"        -> "IsADirectoryError"
      [] FileAt(p).kind = "unreadable" -> "PermissionError"
      [] FileAt(p).kind = "malformed"  -> "ParsingError"
      [] OTHER                         -> ""

\* IsIOError as a handler that catches every exception
IsIOError_catch_all(exc) == exc # ""

\* `except IOError`: IOError is OSError, the base of the three open() errors
IsIOError(exc) ==
    exc \in {"FileNotFoundError", "IsADirectoryError", "PermissionError"}

----------------------------------------------------------------------------
(* get_local_config_filepath *)

\* get_local_config_filepath with the force_local test left out
get_local_config_filepath_unforced(config_filepath, force_local) ==
    LET local_config_filepath == Replace(config_filepath, CFG, LOCAL_CFG)
    IN  IF isfile(local_config_filepath)
        THEN local_config_filepath
        ELSE config_filepath

get_local_config_filepath(config_filepath, force_local) ==
    LET local_config_filepath == Replace(config_filepath, CFG, LOCAL_CFG)
    IN  IF isfile(local_config_filepath) \/ force_local
        THEN local_config_filepath
        ELSE config_filepath

----------------------------------------------------------------------------
(* get_configs *)

\* the ConfigParser that read_file fills from a well-formed file
Parsed(p) == FileAt(p).doc

\* the path get_configs opens for the local document (lines 150-152)
LocalFilepath(config_filepath, local_filepath_override) ==
    IF Truthy(local_filepath_override)
    THEN local_filepath_override.path
    ELSE get_local_config_filepath(config_filepath, TRUE)

\* warnings.warn('No ' + local_filepath + ' found in path')
NoLocalWarning(local_filepath) ==
    [category |-> "UserWarning", msg |-> <<"No", local_filepath, "found in path">>]

\* OnIOError with `local_config = None` left out: the fresh, empty parser stays
OnIOError_keeps_parser(local_filepath) ==
    [local_config |-> EmptyDoc, warnings |-> <<NoLocalWarning(local_filepath)>>]

\* the `except IOError` handler (lines 157-159): warn, local_config = None
OnIOError(local_filepath) ==
    [local_config |-> NoDocument, warnings |-> <<NoLocalWarning(local_filepath)>>]

\* outcome of get_configs: exc = "" and the pair on return, exc set on raise;
\* warnings are those emitted before the call ended
get_configs(config_filepath, local_filepath_override) ==
    LET local_filepath == LocalFilepath(config_filepath, local_filepath_override)
    IN  IF LoadError(config_filepath) # ""
        THEN \* lines 137-141: anything raised for the master is re-raised
             [exc |-> LoadError(config_filepath), global_config |-> NoDocument,
              local_config |-> NoDocument, warnings |-> <<>>]
        ELSE IF LoadError(local_filepath) = ""
        THEN [exc |-> "", global_config |-> Parsed(config_filepath),
              local_config |-> Parsed(local_filepath), warnings |-> <<>>]
        ELSE IF IsIOError(LoadError(local_filepath))
        THEN [exc |-> "", global_config |-> Parsed(config_filepath),
              local_config |-> OnIOError(local_filepath).local_config,
              warnings |-> OnIOError(local_filepath).warnings]
        ELSE \* lines 160-161
             [exc |-> LoadError(local_filepath), global_config |-> NoDocument,
              local_config |-> NoDocument, warnings |-> <<>>]

----------------------------------------------------------------------------
(* ConfigParser lookup, as get_option uses it: config[section_name][key_name] *)

\* ConfigParser.optionxform: keys are lower-cased on read and on lookup
optionxform(key_name) == IF key_name = "Timeout" THEN "timeout" ELSE key_name

\* the exception config[section_name][key_name] raises, or "" for none
LookupError(config, section_name, key_name) ==
    IF config.kind = "None"
    THEN "TypeError"   \* None[section_name]
    ELSE IF section_name # "DEFAULT" /\ section_name \notin DOMAIN config.sections
    THEN "KeyError"
    ELSE IF section_name # "DEFAULT"
            /\ optionxform(key_name) \in DOMAIN config.sections[section_name]
    THEN ""
    ELSE IF optionxform(key_name) \in DOMAIN config.defaults
    THEN ""
    ELSE "KeyError"

\* the value of config[section_name][key_name] when it raises nothing: the
\* section's own option first, then the [DEFAULT] one
Lookup(config, section_name, key_name) ==
    IF section_name # "DEFAULT"
       /\ optionxform(key_name) \in DOMAIN config.sections[section_name]
    THEN config.sections[section_name][optionxform(key_name)]
    ELSE config.defaults[optionxform(key_name)]

----------------------------------------------------------------------------
(* ProsperConfig *)

NoResolver == [kind |-> "none"]

NoCall == [op |-> "none"]

\* one record of the message sink
Log(logger, level, msg) == [logger |-> logger, level |-> level, msg |-> msg]

\* the object __init__ leaves behind when get_configs returns (lines 51-60)
Constructed(config_filename, local_filepath_override, logger) ==
    LET configs == get_configs(config_filename, local_filepath_override)
    IN  [kind |-> "ProsperConfig",
         logger |-> logger,
         config_filename |-> config_filename,
         local_config_filename |->
            IF Truthy(local_filepath_override)
            THEN local_filepath_override.path
            ELSE get_local_config_filepath(config_filename, FALSE),
         global_config |-> configs.global_config,
         local_config |-> configs.local_config]

\* outcome of get_option on resolver r (lines 88-109)
get_option_outcome(r, section_name, key_name, args_option, args_default) ==
    LET picking == <<Log(r.logger, "debug", "picking config")>>
        local_err == LookupError(r.local_config, section_name, key_name)
        global_err == LookupError(r.global_config, section_name, key_name)
        local_miss == <<Log(r.logger, "debug", "not found in local config")>>
        global_miss == <<Log(r.logger, "warning", "not found in global config")>>
    IN  IF PyNe(args_option, args_default)
        THEN [kind |-> "return", value |-> args_option, exc |-> "",
              logged |-> picking \o <<Log(r.logger, "debug", "-- using function args")>>]
        ELSE IF local_err = ""
        THEN [kind |-> "return",
              value |-> Lookup(r.local_config, section_name, key_name), exc |-> "",
              logged |-> picking \o <<Log(r.logger, "debug", "-- using local config")>>]
        ELSE IF local_err # "KeyError"
        THEN \* `except KeyError` does not catch it
             [kind |-> "raise", value |-> PyNone, exc |-> local_err,
              logged |-> picking]
        ELSE IF global_err = ""
        THEN [kind |-> "return",
              value |-> Lookup(r.global_config, section_name, key_name), exc |-> "",
              logged |-> picking \o local_miss
                         \o <<Log(r.logger, "debug", "-- using global config")>>]
        ELSE IF global_err # "KeyError"
        THEN [kind |-> "raise", value |-> PyNone, exc |-> global_err,
              logged |-> picking \o local_miss]
        ELSE [kind |-> "return", value |-> args_default, exc |-> "",
              logged |-> picking \o local_miss \o global_miss
                         \o <<Log(r.logger, "debug", "-- using default argument")>>]

\* a disk on which every path is either missing or a well-formed file
Init ==
    /\ fs \in [FsPaths -> {f \in FileStates : f.kind \in {"missing", "file"}}]
    /\ self = NoResolver
    /\ call = NoCall
    /\ result = [kind |-> "none"]
    /\ warned = <<>>
    /\ logged = <<>>

\* a disk on which every path is in any state
InitLoader ==
    /\ fs \in [FsPaths -> FileStates]
    /\ self = NoResolver
    /\ call = NoCall
    /\ result = [kind |-> "none"]
    /\ warned = <<>>
    /\ logged = <<>>

\* ProsperConfig(config_filename, local_filepath_override, logger): __init__
ProsperConfig(config_filename, local_filepath_override, logger) ==
    LET configs == get_configs(config_filename, local_filepath_override)
    IN  /\ self = NoResolver
        /\ call' = [op |-> "ProsperConfig", config_filename |-> config_filename,
                    local_filepath_override |-> local_filepath_override,
                    logger |-> logger]
        /\ IF configs.exc = ""
           THEN /\ self' = Constructed(config_filename, local_filepath_override, logger)
                /\ result' = [kind |-> "return"]
           ELSE /\ self' = NoResolver
                /\ result' = [kind |-> "raise", exc |-> configs.exc]
        /\ warned' = configs.warnings
        /\ logged' = <<>>
        /\ UNCHANGED fs

get_option(section_name, key_name, args_option, args_default) ==
    LET outcome ==
            get_option_outcome(self, section_name, key_name, args_option, args_default)
    IN  /\ self.kind = "ProsperConfig"
        /\ call' = [op |-> "get_option", section_name |-> section_name,
                    key_name |-> key_name, args_option |-> args_option,
                    args_default |-> args_default]
        /\ result' = [kind |-> outcome.kind, value |-> outcome.value,
                      exc |-> outcome.exc]
        /\ logged' = outcome.logged
        /\ warned' = <<>>
        /\ UNCHANGED <<fs, self>>

\* attach_logger binding a local name instead of the attribute
attach_logger_unbound(logger) ==
    /\ self.kind = "ProsperConfig"
    /\ self' = self
    /\ call' = [op |-> "attach_logger", logger |-> logger]
    /\ result' = [kind |-> "return"]
    /\ warned' = <<>>
    /\ logged' = <<>>
    /\ UNCHANGED fs

attach_logger(logger) ==
    /\ self.kind = "ProsperConfig"
    /\ self' = [self EXCEPT !.logger = logger]
    /\ call' = [op |-> "attach_logger", logger |-> logger]
    /\ result' = [kind |-> "return"]
    /\ warned' = <<>>
    /\ logged' = <<>>
    /\ UNCHANGED fs

\* a direct call of the module-level loader
Call_get_configs(config_filepath, local_filepath_override) ==
    LET configs == get_configs(config_filepath, local_filepath_override)
    IN  /\ call' = [op |-> "get_configs", config_filepath |-> config_filepath,
                    local_filepath_override |-> local_filepath_override]
        /\ result' = IF configs.exc = ""
                     THEN [kind |-> "return", global_config |-> configs.global_config,
                           local_config |-> configs.local_config]
                     ELSE [kind |-> "raise", exc |-> configs.exc]
        /\ warned' = configs.warnings
        /\ logged' = <<>>
        /\ UNCHANGED <<fs, self>>

\* a direct call of the module-level helper
Call_get_local_config_filepath(config_filepath, force_local) ==
    /\ call' = [op |-> "get_local_config_filepath",
                config_filepath |-> config_filepath, force_local |-> force_local]
    /\ result' = [kind |-> "return",
                  value |-> get_local_config_filepath(config_filepath, force_local)]
    /\ warned' = <<>>
    /\ logged' = <<>>
    /\ UNCHANGED <<fs, self>>

Next ==
    \/ \E p \in ArgPaths, o \in ArgOverrides, l \in Loggers \cup {DEFAULT_LOGGER} :
          ProsperConfig(p, o, l)
    \/ \E s \in SectionNames, k \in KeyNames, a \in ArgValues, d \in ArgValues :
          get_option(s, k, a, d)
    \/ \E l \in Loggers : attach_logger(l)

NextLoader ==
    \/ \E p \in ArgPaths, o \in ArgOverrides, l \in Loggers \cup {DEFAULT_LOGGER} :
          ProsperConfig(p, o, l)
    \/ \E p \in ArgPaths, o \in ArgOverrides : Call_get_configs(p, o)
    \/ \E p \in ArgPaths, f \in BOOLEAN : Call_get_local_config_filepath(p, f)

\* the resolver: construction, then queries and logger swaps
Spec == Init /\ [][Next]_vars

\* the loader: construction and the module-level functions, on any disk
SpecLoader == InitLoader /\ [][NextLoader]_vars

----------------------------------------------------------------------------
(* Vocabulary of the properties *)

\* (section_name, key_name) is present in a loaded document
Present(config, section_name, key_name) ==
    /\ config.kind = "ConfigParser"
    /\ LookupError(config, section_name, key_name) = ""

\* the last step was get_option, called with no distinguishable runtime value
NoOverrideQuery == call.op = "get_option" /\ PyEq(call.args_option, call.args_default)

Returned(v) == result.kind = "return" /\ result.value = v

\* the file kinds that are regular files
IsRegular(p) == FileAt(p).kind \in {"file", "malformed", "unreadable"}

\* 'x.cfg' -> 'x_local.cfg', written out for the paths callers pass
Sibling(p) ==
    CASE p = MasterPath  -> <<"m">> \o LOCAL_CFG
      [] p = SiblingPath -> <<"m", "_", "l", "o", "c", "a", "l">> \o LOCAL_CFG
      [] p = OtherPath   -> <<"o">>
      [] p = DoublePath  -> <<"d">> \o LOCAL_CFG \o LOCAL_CFG

\* the local path of a construction or get_configs call: the override when
\* one is passed and non-empty, the sibling otherwise
LocalOf(c) ==
    IF c.local_filepath_override.given /\ c.local_filepath_override.path # <<>>
    THEN c.local_filepath_override.path
    ELSE Sibling(IF c.op = "ProsperConfig" THEN c.config_filename ELSE c.config_filepath)

MasterOf(c) == IF c.op = "ProsperConfig" THEN c.config_filename ELSE c.config_filepath

----------------------------------------------------------------------------
(* C1 *)

\* C1: get_option called with a runtime value not equal to the default
\* returns the runtime value verbatim, whatever the documents hold and
\* whether the local document is loaded or absent.
C1_RuntimeDominates ==
    (call.op = "get_option" /\ ~PyEq(call.args_option, call.args_default))
        => Returned(call.args_option)

\* a runtime value was returned although both documents hold the key
C1_Witness ==
    /\ call.op = "get_option"
    /\ ~PyEq(call.args_option, call.args_default)
    /\ Present(self.local_config, call.section_name, call.key_name)
    /\ Present(self.global_config, call.section_name, call.key_name)
    /\ Returned(call.args_option)

----------------------------------------------------------------------------
(* C2 *)

\* C2: with the runtime value equal to the default, a key present in both
\* documents resolves to the local document's value, and a key present only
\* in the master document resolves to the master's value.
C2_LocalThenMaster ==
    NoOverrideQuery =>
        /\ (/\ Present(self.local_config, call.section_name, call.key_name)
            /\ Present(self.global_config, call.section_name, call.key_name))
              => Returned(Lookup(self.local_config, call.section_name, call.key_name))
        /\ (/\ ~Present(self.local_config, call.section_name, call.key_name)
            /\ Present(self.global_config, call.section_name, call.key_name))
              => Returned(Lookup(self.global_config, call.section_name, call.key_name))

----------------------------------------------------------------------------
(* C3 *)

\* C3: a key absent from both documents resolves, without an exception, to
\* exactly the supplied default.
C3_DefaultWhenAbsent ==
    (/\ NoOverrideQuery
     /\ ~Present(self.local_config, call.section_name, call.key_name)
     /\ ~Present(self.global_config, call.section_name, call.key_name))
        => Returned(call.args_default)

----------------------------------------------------------------------------
(* C4 *)

\* C4: on a resolver whose local document is absent, get_option without a
\* runtime override raises nothing and returns the master's value when the
\* master holds the key, the default otherwise.
C4_AbsentLocalFallsThrough ==
    (NoOverrideQuery /\ self.local_config.kind = "None")
        => IF Present(self.global_config, call.section_name, call.key_name)
           THEN Returned(Lookup(self.global_config, call.section_name, call.key_name))
           ELSE Returned(call.args_default)

\* with a loaded local document the fall-through of C2, C3 and C4 does hold:
\* the local miss is a KeyError, which get_option catches
LoadedLocalFallsThrough ==
    (NoOverrideQuery /\ self.local_config.kind = "ConfigParser")
        => IF Present(self.local_config, call.section_name, call.key_name)
           THEN Returned(Lookup(self.local_config, call.section_name, call.key_name))
           ELSE IF Present(self.global_config, call.section_name, call.key_name)
           THEN Returned(Lookup(self.global_config, call.section_name, call.key_name))
           ELSE Returned(call.args_default)

----------------------------------------------------------------------------
(* C5 *)

\* C5: construction raises if and only if the master file cannot be opened
\* or parsed, whatever the state of the local file.
C5_FailsExactlyOnMaster ==
    call.op = "ProsperConfig"
        => (result.kind = "raise" <=> FileAt(MasterOf(call)).kind # "file")

\* C5 as amended: construction raises if and only if the master file cannot
\* be opened or parsed, or the local file opens but its content does not
\* parse; a local file that is missing or cannot be opened never makes
\* construction fail.
C5_FailsOnMasterOrLocalParse ==
    call.op = "ProsperConfig"
        => (result.kind = "raise"
              <=> \/ FileAt(MasterOf(call)).kind # "file"
                  \/ FileAt(LocalOf(call)).kind = "malformed")

\* a construction that failed on a malformed local file beside a good master
C5_Witness ==
    /\ call.op = "ProsperConfig"
    /\ FileAt(MasterOf(call)).kind = "file"
    /\ FileAt(LocalOf(call)).kind = "malformed"
    /\ result.kind = "raise"
    /\ self = NoResolver

----------------------------------------------------------------------------
(* C6 *)

\* C6: loading with a missing master file raises and yields no resolver;
\* loading with a well-formed master whose local file is missing succeeds,
\* emits one warning, and reports the local document as None, which is not
\* a loaded document without sections.
C6_MissingMasterFatalMissingLocalAbsent ==
    /\ (call.op \in {"ProsperConfig", "get_configs"}
        /\ FileAt(MasterOf(call)).kind = "missing")
          => /\ result.kind = "raise"
             /\ call.op = "ProsperConfig" => self = NoResolver
    /\ (call.op \in {"ProsperConfig", "get_configs"}
        /\ FileAt(MasterOf(call)).kind = "file"
        /\ FileAt(LocalOf(call)).kind = "missing")
          => /\ result.kind = "return"
             /\ Len(warned) = 1
             /\ warned[1].msg[2] = LocalOf(call)
             /\ LET loaded == IF call.op = "ProsperConfig" THEN self ELSE result
                IN  /\ loaded.local_config.kind = "None"
                    /\ loaded.local_config # EmptyDoc
                    /\ loaded.global_config = FileAt(MasterOf(call)).doc

\* a resolver built from a good master whose sibling is missing
C6_Witness ==
    /\ call.op = "ProsperConfig"
    /\ ~call.local_filepath_override.given
    /\ FileAt(call.config_filename).kind = "file"
    /\ FileAt(Sibling(call.config_filename)).kind = "missing"
    /\ self.kind = "ProsperConfig"
    /\ self.local_config.kind = "None"
    /\ Len(warned) = 1

----------------------------------------------------------------------------
(* C7 *)

\* C7: get_local_config_filepath returns the path with every '.cfg' replaced
\* by '_local.cfg' when that candidate is a regular file or force is set, and
\* the path it was given otherwise; the call changes neither disk nor resolver.
C7_DeriveLocalPath ==
    [][call'.op = "get_local_config_filepath"
         => /\ result'.kind = "return"
            /\ result'.value =
                 IF IsRegular(Sibling(call'.config_filepath)) \/ call'.force_local
                 THEN Sibling(call'.config_filepath)
                 ELSE call'.config_filepath
            /\ fs' = fs
            /\ self' = self]_vars

\* an unforced call whose candidate is on disk, but as a directory
C7_Witness ==
    /\ call.op = "get_local_config_filepath"
    /\ call.config_filepath = MasterPath
    /\ ~call.force_local
    /\ FileAt(SiblingPath).kind = "dir"
    /\ result.value = MasterPath

----------------------------------------------------------------------------
(* C8 *)

\* C8: get_configs reports the local document as None only when the local
\* path does not exist; a local path that exists but cannot be opened, or
\* whose content does not parse, makes get_configs raise.
C8_OnlyMissingLocalRecovered ==
    (call.op = "get_configs" /\ FileAt(MasterOf(call)).kind = "file")
        => /\ (result.kind = "return" /\ result.local_config.kind = "None")
                 => FileAt(LocalOf(call)).kind = "missing"
           /\ FileAt(LocalOf(call)).kind \in {"dir", "unreadable", "malformed"}
                 => result.kind = "raise"

----------------------------------------------------------------------------
(* C9 *)

\* what get_option answers on resolver r, apart from where it logs
Answer(r, s, k, a, d) ==
    LET o == get_option_outcome(r, s, k, a, d)
    IN  [kind |-> o.kind, value |-> o.value, exc |-> o.exc]

\* C9: once constructed, no get_option or attach_logger call changes the two
\* documents or the two paths; attach_logger sets the logger to its
\* argument, get_option changes nothing of the resolver, every query answers
\* after a logger swap what it answered before, and a query asked again
\* right after get_option answers what that call returned.
C9_QueriesAndLoggerSwapsKeepDocuments ==
    [][(self.kind = "ProsperConfig" /\ call'.op \in {"get_option", "attach_logger"})
         => /\ self'.global_config = self.global_config
            /\ self'.local_config = self.local_config
            /\ self'.config_filename = self.config_filename
            /\ self'.local_config_filename = self.local_config_filename
            /\ call'.op = "attach_logger"
                 => /\ self'.logger = call'.logger
                    /\ \A s \in SectionNames, k \in KeyNames,
                          a \in ArgValues, d \in ArgValues :
                          Answer(self', s, k, a, d) = Answer(self, s, k, a, d)
            /\ call'.op = "get_option"
                 => /\ self' = self
                    /\ result' = Answer(self', call'.section_name, call'.key_name,
                                        call'.args_option, call'.args_default)]_vars

\* a logger attached to a resolver that was built with the default logger
\* and holds a loaded local document
C9_Witness ==
    /\ call.op = "attach_logger"
    /\ self.kind = "ProsperConfig"
    /\ self.logger = call.logger
    /\ self.logger # DEFAULT_LOGGER
    /\ self.local_config.kind = "ConfigParser"

----------------------------------------------------------------------------
(* C10 *)

\* C10: after a successful construction, local_config_filename is the path
\* the loader opened for the local document: the override when one is
\* supplied, the master path with '.cfg' replaced by '_local.cfg' otherwise,
\* whether or not that file exists.
C10_RecordedLocalPathIsOpenedPath ==
    (call.op = "ProsperConfig" /\ result.kind = "return")
        => self.local_config_filename = LocalOf(call)

====
